---- MODULE Spec2Model ----
(***************************************************************************)
(* A model of dca_stake.py: one cron-driven DCA staking run on Bittensor.  *)
(*                                                                         *)
(* Amounts (stake_amount, balance, tao_in) are in hundredths of a TAO, so  *)
(* that the 0.01 fee buffer of run() is the integer 1.  A score            *)
(* (emission / price) is kept as the exact fraction [n, d] with d > 0 and  *)
(* compared by cross multiplication.                                       *)
(*                                                                         *)
(* An attribute of a subnet record as the chain library hands it over is   *)
(* a raw value [exc, v]: float() of it raises exc unless exc = "none", in  *)
(* which case it yields v.                                                 *)
(***************************************************************************)
EXTENDS Integers, Sequences, FiniteSets, TLC

VARIABLES
    config,      \* the Config of this run (immutable after load_config)
    pc,          \* position of run() / of the function under study
    net_idx,     \* connect_to_bittensor: index into networks_to_try
    attempt,     \* connect_with_retry: tenacity attempt_number on this network
    attempts,    \* history: the network of every try made, in order
    sleeps,      \* history: the backoff delay slept after every failed try
    opened,      \* history: number of AsyncSubtensor handles constructed
    subtensor,   \* the handle run() holds: "none", "open" or "closed"
    wallet,      \* "locked" or "unlocked"
    balance,     \* balance read by get_balance, -1 before the read
    subnet,      \* the resolved target subnet record, or None
    liquidity,   \* result triple of check_liquidity, or NoCheck
    calls,       \* history: collaborator calls made by run() after connect
    pending,     \* value of the return statement executed inside try/finally
    exit_code,   \* value run() returned, -1 while it has not returned
    outcome,     \* "running", "Success", "GracefulSkip", "Failure", "Raised"
    raised,      \* the exception propagating out of run(), "none" if none
    success,     \* answer of add_stake: "unset", "True", "False", "raised"
    subnets      \* input list of the selector when it is studied on its own

vars == <<config, pc, net_idx, attempt, attempts, sleeps, opened, subtensor,
          wallet, balance, subnet, liquidity, calls, pending, exit_code,
          outcome, raised, success, subnets>>

(***************************************************************************)
(* Bounds of the model.                                                    *)
(***************************************************************************)
\* greatest number of subnets all_subnets() returns; netuids are 1..MaxSubnets
MaxSubnets == 2

(***************************************************************************)
(* Program constants.                                                      *)
(***************************************************************************)
FALLBACK_NETWORKS == <<"finney", "subvortex", "archive">>

\* stop_after_attempt(3)
STOP_AFTER_ATTEMPT == 3

\* wait_exponential(multiplier=1, min=2, max=10)
WAIT_MULTIPLIER == 1
WAIT_MIN == 2
WAIT_MAX == 10

\* the "+ 0.01  # +0.01 for fees" of run(), in hundredths of a TAO
FEE_BUFFER == 1

(***************************************************************************)
(* Input domains.                                                          *)
(***************************************************************************)
Networks == {"finney", "subvortex", "archive", "test"}

Netuids == 1..MaxSubnets

NoNetuid == -1

Num(n) == [exc |-> "none", v |-> n]

Raises(e) == [exc |-> e, v |-> 0]

PriceVals == {Raises("ValueError"), Num(0), Num(1), Num(2)}

TaoInVals == {Raises("TypeError"), Raises("ValueError"), Num(500), Num(1000)}

EmissionVals == {Raises("TypeError"), Num(0), Num(1)}

StakeAmounts == {100}

MinRatios == {10}

Balances == {100, 101}

\* the subnet records the selector is studied on
Subnets == [netuid : Netuids, price : PriceVals, tao_in : TaoInVals,
            tao_in_emission : EmissionVals]

\* the subnet records all_subnets() answers with during a run
ChainSubnets == [netuid : Netuids,
                 price : {Raises("ValueError"), Num(0), Num(1)},
                 tao_in : TaoInVals,
                 tao_in_emission : {Num(1)}]

None == [netuid |-> NoNetuid, price |-> Num(0), tao_in |-> Num(0),
         tao_in_emission |-> Num(0)]

Configs == [network : Networks,
            target_netuid : Netuids \cup {NoNetuid},
            whitelist : SUBSET Netuids,
            stake_amount : StakeAmounts,
            min_liquidity_ratio : MinRatios,
            dry_run : BOOLEAN]

(***************************************************************************)
(* Pure helpers of the source.                                             *)
(***************************************************************************)
\* float(x) succeeded
Parsed(x) == x.exc = "none"

\* NetworksToTry with the duplicate of the primary network left in
NetworksToTry_KeepsDuplicate(primary_network) ==
    <<primary_network>> \o FALLBACK_NETWORKS

\* networks_to_try = [primary] + [n for n in FALLBACK_NETWORKS if n != primary]
NetworksToTry(primary_network) ==
    <<primary_network>> \o
        SelectSeq(FALLBACK_NETWORKS, LAMBDA n : n # primary_network)

Min2(a, b) == IF a < b THEN a ELSE b

Max2(a, b) == IF a > b THEN a ELSE b

\* WaitExponential with the exponent counted from 1: 2 ** attempt_number
WaitExponential_FromTwo(attempt_number) ==
    Max2(Max2(0, WAIT_MIN),
         Min2(WAIT_MULTIPLIER * 2 ^ attempt_number, WAIT_MAX))

\* tenacity's wait_exponential after the attempt numbered attempt_number:
\*   max(max(0, min), min(multiplier * 2 ** (attempt_number - 1), max))
WaitExponential(attempt_number) ==
    Max2(Max2(0, WAIT_MIN),
         Min2(WAIT_MULTIPLIER * 2 ^ (attempt_number - 1), WAIT_MAX))

\* best_score = 0.0
InitialBestScore == [n |-> 0, d |-> 1]

\* try: score = float(s.tao_in_emission) / price   except Exception: score = 0.0
\* (called with a parsed price > 0 only)
Score(s) ==
    IF Parsed(s.tao_in_emission)
    THEN [n |-> s.tao_in_emission.v, d |-> s.price.v]
    ELSE [n |-> 0, d |-> 1]

\* ScoreGreater with the division by the price forgotten
ScoreGreater_EmissionOnly(score, best_score) == score.n > best_score.n

\* score > best_score
ScoreGreater(score, best_score) == score.n * best_score.d > best_score.n * score.d

\* the exceptions "except (AttributeError, TypeError)" catches around float(tao_in)
LiquidityCaught == {"AttributeError", "TypeError"}

\* SelectStep with the comparison of tao_in against the required amount left out
SelectStep_NoRequired(acc, s, whitelist, stake_amount, min_liquidity_ratio) ==
    IF acc.raised THEN acc
    ELSE IF s.netuid \notin whitelist THEN acc
    ELSE IF ~Parsed(s.price) THEN acc
    ELSE IF s.price.v <= 0 THEN acc
    ELSE IF s.tao_in.exc \in LiquidityCaught THEN acc
    ELSE IF ~Parsed(s.tao_in) THEN [acc EXCEPT !.raised = TRUE]
    ELSE IF ScoreGreater(Score(s), acc.best_score)
         THEN [acc EXCEPT !.best_score = Score(s), !.best_subnet = s]
         ELSE acc

\* SelectStep with the whitelist test left out
SelectStep_NoWhitelist(acc, s, whitelist, stake_amount, min_liquidity_ratio) ==
    IF acc.raised THEN acc
    ELSE IF ~Parsed(s.price) THEN acc
    ELSE IF s.price.v <= 0 THEN acc
    ELSE IF s.tao_in.exc \in LiquidityCaught THEN acc
    ELSE IF ~Parsed(s.tao_in) THEN [acc EXCEPT !.raised = TRUE]
    ELSE IF s.tao_in.v < stake_amount * min_liquidity_ratio THEN acc
    ELSE IF ScoreGreater(Score(s), acc.best_score)
         THEN [acc EXCEPT !.best_score = Score(s), !.best_subnet = s]
         ELSE acc

\* one iteration of the "for s in subnets" loop of select_best_from_whitelist
SelectStep(acc, s, whitelist, stake_amount, min_liquidity_ratio) ==
    IF acc.raised THEN acc
    ELSE IF s.netuid \notin whitelist THEN acc
    ELSE IF ~Parsed(s.price) THEN acc
    ELSE IF s.price.v <= 0 THEN acc
    ELSE IF s.tao_in.exc \in LiquidityCaught THEN acc
    ELSE IF ~Parsed(s.tao_in) THEN [acc EXCEPT !.raised = TRUE]
    ELSE IF s.tao_in.v < stake_amount * min_liquidity_ratio THEN acc
    ELSE IF ScoreGreater(Score(s), acc.best_score)
         THEN [acc EXCEPT !.best_score = Score(s), !.best_subnet = s]
         ELSE acc

RECURSIVE SelectLoop(_, _, _, _, _, _)
SelectLoop(list, i, acc, whitelist, stake_amount, min_liquidity_ratio) ==
    IF i > Len(list) THEN acc
    ELSE SelectLoop(list, i + 1,
                    SelectStep(acc, list[i], whitelist, stake_amount,
                               min_liquidity_ratio),
                    whitelist, stake_amount, min_liquidity_ratio)

\* select_best_from_whitelist on the list all_subnets() returned.  The result
\* is [raised, subnet, error]: raised when a float(s.tao_in) raised an
\* exception the function does not catch, else the pair it returns.
select_best_from_whitelist(list, whitelist, stake_amount, min_liquidity_ratio) ==
    LET acc == SelectLoop(list, 1,
                          [raised |-> FALSE, best_subnet |-> None,
                           best_score |-> InitialBestScore],
                          whitelist, stake_amount, min_liquidity_ratio)
    IN  IF acc.raised
        THEN [raised |-> TRUE, subnet |-> None, error |-> "ValueError"]
        ELSE IF acc.best_subnet # None
        THEN [raised |-> FALSE, subnet |-> acc.best_subnet, error |-> "None"]
        ELSE [raised |-> FALSE, subnet |-> None,
              error |-> "No eligible subnets in whitelist"]

RECURSIVE ScanNetuid(_, _, _)
ScanNetuid(list, i, netuid) ==
    IF i > Len(list) THEN None
    ELSE IF list[i].netuid = netuid THEN list[i]
    ELSE ScanNetuid(list, i + 1, netuid)

\* get_subnet_by_netuid on the list all_subnets() returned
get_subnet_by_netuid(list, netuid) == ScanNetuid(list, 1, netuid)

NoCheck == [raised |-> FALSE, ok |-> FALSE, tao_in_pool |-> 0, msg |-> "not run"]

\* check_liquidity with the comparison against the required amount left out
check_liquidity_NoRequired(s, stake_amount, min_ratio) ==
    IF s.tao_in.exc \in LiquidityCaught
    THEN [raised |-> FALSE, ok |-> FALSE, tao_in_pool |-> 0,
          msg |-> "Unable to determine pool liquidity"]
    ELSE IF ~Parsed(s.tao_in)
    THEN [raised |-> TRUE, ok |-> FALSE, tao_in_pool |-> 0, msg |-> "ValueError"]
    ELSE IF s.tao_in.v <= 0
    THEN [raised |-> FALSE, ok |-> FALSE, tao_in_pool |-> s.tao_in.v,
          msg |-> "Pool has zero liquidity"]
    ELSE [raised |-> FALSE, ok |-> TRUE, tao_in_pool |-> s.tao_in.v, msg |-> "OK"]

\* check_liquidity(subnet, stake_amount, min_ratio); raised when float(tao_in)
\* raised an exception the function does not catch
check_liquidity(s, stake_amount, min_ratio) ==
    IF s.tao_in.exc \in LiquidityCaught
    THEN [raised |-> FALSE, ok |-> FALSE, tao_in_pool |-> 0,
          msg |-> "Unable to determine pool liquidity"]
    ELSE IF ~Parsed(s.tao_in)
    THEN [raised |-> TRUE, ok |-> FALSE, tao_in_pool |-> 0, msg |-> "ValueError"]
    ELSE IF s.tao_in.v <= 0
    THEN [raised |-> FALSE, ok |-> FALSE, tao_in_pool |-> s.tao_in.v,
          msg |-> "Pool has zero liquidity"]
    ELSE IF s.tao_in.v < stake_amount * min_ratio
    THEN [raised |-> FALSE, ok |-> FALSE, tao_in_pool |-> s.tao_in.v,
          msg |-> "Pool < required"]
    ELSE [raised |-> FALSE, ok |-> TRUE, tao_in_pool |-> s.tao_in.v, msg |-> "OK"]

(***************************************************************************)
(* run(): the state machine of one run.                                    *)
(***************************************************************************)
NoReturn == [code |-> -1, outcome |-> "running", reason |-> "none"]

Ret(code, kind, reason) == [code |-> code, outcome |-> kind, reason |-> reason]

RECURSIVE ListsOfLen(_)
\* the lists all_subnets() can return with n subnets: netuids 1..n in order
ListsOfLen(n) ==
    IF n = 0 THEN {<<>>}
    ELSE {Append(l, s) : l \in ListsOfLen(n - 1),
                         s \in {x \in ChainSubnets : x.netuid = n}}

ChainLists == UNION {ListsOfLen(n) : n \in 0..MaxSubnets}

Init ==
    /\ config \in Configs
    /\ pc = "connect"
    /\ net_idx = 1
    /\ attempt = 1
    /\ attempts = <<>>
    /\ sleeps = <<>>
    /\ opened = 0
    /\ subtensor = "none"
    /\ wallet = "locked"
    /\ balance = -1
    /\ subnet = None
    /\ liquidity = NoCheck
    /\ calls = <<>>
    /\ pending = NoReturn
    /\ exit_code = -1
    /\ outcome = "running"
    /\ raised = "none"
    /\ success = "unset"
    /\ subnets = <<>>

networks_to_try == NetworksToTry(config.network)

\* a return statement inside the try block: the finally clause runs next
Return(r) ==
    /\ pending' = r
    /\ raised' = raised
    /\ pc' = "finally"

\* an exception no handler of run() catches: it leaves through the finally
Propagate(e) ==
    /\ raised' = e
    /\ pending' = pending
    /\ pc' = "finally"

\* the step completes and run() goes on to the statement at position next
Goto(next) ==
    /\ pc' = next
    /\ pending' = pending
    /\ raised' = raised

\* connect_with_retry: a try constructs a handle and get_current_block answers
TrySucceeds ==
    /\ pc = "connect"
    /\ attempts' = Append(attempts, networks_to_try[net_idx])
    /\ opened' = opened + 1
    /\ subtensor' = "open"
    /\ pc' = "unlock"
    /\ UNCHANGED <<config, net_idx, attempt, sleeps, wallet, balance, subnet,
                   liquidity, calls, pending, exit_code, outcome, raised,
                   success, subnets>>

\* TryFailsRetry without stop_after_attempt: a failed try is always retried
TryFailsRetry_NoStop ==
    /\ pc = "connect"
    /\ attempts' = Append(attempts, networks_to_try[net_idx])
    /\ opened' = opened + 1
    /\ sleeps' = Append(sleeps, WaitExponential(attempt))
    /\ attempt' = attempt + 1
    /\ UNCHANGED <<config, pc, net_idx, subtensor, wallet, balance, subnet,
                   liquidity, calls, pending, exit_code, outcome, raised,
                   success, subnets>>

\* connect_with_retry: the try fails and tenacity sleeps before the next one
TryFailsRetry ==
    /\ pc = "connect"
    /\ attempt < STOP_AFTER_ATTEMPT
    /\ attempts' = Append(attempts, networks_to_try[net_idx])
    /\ opened' = opened + 1
    /\ sleeps' = Append(sleeps, WaitExponential(attempt))
    /\ attempt' = attempt + 1
    /\ UNCHANGED <<config, pc, net_idx, subtensor, wallet, balance, subnet,
                   liquidity, calls, pending, exit_code, outcome, raised,
                   success, subnets>>

\* connect_to_bittensor: the last try on a network fails (RetryError), the
\* loop continues with the next network
TryFailsFallback ==
    /\ pc = "connect"
    /\ attempt >= STOP_AFTER_ATTEMPT
    /\ net_idx < Len(networks_to_try)
    /\ attempts' = Append(attempts, networks_to_try[net_idx])
    /\ opened' = opened + 1
    /\ net_idx' = net_idx + 1
    /\ attempt' = 1
    /\ UNCHANGED <<config, pc, sleeps, subtensor, wallet, balance, subnet,
                   liquidity, calls, pending, exit_code, outcome, raised,
                   success, subnets>>

\* ConnectFails without the fallback: the first exhausted network ends connect
ConnectFails_NoFallback ==
    /\ pc = "connect"
    /\ attempt >= STOP_AFTER_ATTEMPT
    /\ attempts' = Append(attempts, networks_to_try[net_idx])
    /\ opened' = opened + 1
    /\ pending' = Ret(1, "Failure", "Connection failed")
    /\ exit_code' = 1
    /\ outcome' = "Failure"
    /\ pc' = "done"
    /\ UNCHANGED <<config, net_idx, attempt, sleeps, subtensor, wallet,
                   balance, subnet, liquidity, calls, raised, success,
                   subnets>>

\* connect_to_bittensor raises ConnectionError; run() returns 1 (no finally)
ConnectFails ==
    /\ pc = "connect"
    /\ attempt >= STOP_AFTER_ATTEMPT
    /\ net_idx >= Len(networks_to_try)
    /\ attempts' = Append(attempts, networks_to_try[net_idx])
    /\ opened' = opened + 1
    /\ pending' = Ret(1, "Failure", "Connection failed")
    /\ exit_code' = 1
    /\ outcome' = "Failure"
    /\ pc' = "done"
    /\ UNCHANGED <<config, net_idx, attempt, sleeps, subtensor, wallet,
                   balance, subnet, liquidity, calls, raised, success,
                   subnets>>

UnlockOk ==
    /\ pc = "unlock"
    /\ calls' = Append(calls, "unlock_wallet")
    /\ wallet' = "unlocked"
    /\ Goto("balance")
    /\ UNCHANGED <<config, net_idx, attempt, attempts, sleeps, opened,
                   subtensor, balance, subnet, liquidity, exit_code, outcome,
                   success, subnets>>

UnlockRaises ==
    /\ pc = "unlock"
    /\ calls' = Append(calls, "unlock_wallet")
    /\ Return(Ret(1, "Failure", "Wallet unlock failed"))
    /\ UNCHANGED <<config, net_idx, attempt, attempts, sleeps, opened,
                   subtensor, wallet, balance, subnet, liquidity, exit_code,
                   outcome, success, subnets>>

\* BalanceRead with the comparison against stake_amount + 0.01 left out
BalanceRead_NoCheck ==
    /\ pc = "balance"
    /\ calls' = Append(calls, "get_balance")
    /\ \E b \in Balances :
        /\ balance' = b
        /\ Goto("resolve")
    /\ UNCHANGED <<config, net_idx, attempt, attempts, sleeps, opened,
                   subtensor, wallet, subnet, liquidity, exit_code, outcome,
                   success, subnets>>

BalanceRead ==
    /\ pc = "balance"
    /\ calls' = Append(calls, "get_balance")
    /\ \E b \in Balances :
        /\ balance' = b
        /\ IF b < config.stake_amount + FEE_BUFFER
           THEN Return(Ret(1, "Failure", "Insufficient balance"))
           ELSE Goto("resolve")
    /\ UNCHANGED <<config, net_idx, attempt, attempts, sleeps, opened,
                   subtensor, wallet, subnet, liquidity, exit_code, outcome,
                   success, subnets>>

BalanceRaises ==
    /\ pc = "balance"
    /\ calls' = Append(calls, "get_balance")
    /\ Return(Ret(1, "Failure", "Failed to check balance"))
    /\ UNCHANGED <<config, net_idx, attempt, attempts, sleeps, opened,
                   subtensor, wallet, balance, subnet, liquidity, exit_code,
                   outcome, success, subnets>>

\* single subnet mode: subnet = await get_subnet_by_netuid(...)
ResolveById ==
    /\ pc = "resolve"
    /\ config.target_netuid # NoNetuid
    /\ calls' = Append(calls, "all_subnets")
    /\ \E list \in ChainLists :
        /\ subnet' = get_subnet_by_netuid(list, config.target_netuid)
        /\ IF subnet' = None
           THEN Return(Ret(1, "Failure", "Subnet not found"))
           ELSE Goto("price")
    /\ UNCHANGED <<config, net_idx, attempt, attempts, sleeps, opened,
                   subtensor, wallet, balance, liquidity, exit_code, outcome,
                   success, subnets>>

\* whitelist mode: subnet, error = await select_best_from_whitelist(...)
ResolveFromWhitelist ==
    /\ pc = "resolve"
    /\ config.target_netuid = NoNetuid
    /\ config.whitelist # {}
    /\ calls' = Append(calls, "all_subnets")
    /\ \E list \in ChainLists :
        LET r == select_best_from_whitelist(list, config.whitelist,
                     config.stake_amount, config.min_liquidity_ratio)
        IN  IF r.raised
            THEN Propagate(r.error) /\ UNCHANGED subnet
            ELSE /\ subnet' = r.subnet
                 /\ IF r.subnet = None
                    THEN Return(Ret(0, "GracefulSkip", "No eligible subnets"))
                    ELSE Goto("price")
    /\ UNCHANGED <<config, net_idx, attempt, attempts, sleeps, opened,
                   subtensor, wallet, balance, liquidity, exit_code, outcome,
                   success, subnets>>

\* subtensor.all_subnets() raises inside either helper; run() has no handler
ResolveFetchRaises ==
    /\ pc = "resolve"
    /\ config.target_netuid # NoNetuid \/ config.whitelist # {}
    /\ calls' = Append(calls, "all_subnets")
    /\ Propagate("all_subnets error")
    /\ UNCHANGED <<config, net_idx, attempt, attempts, sleeps, opened,
                   subtensor, wallet, balance, subnet, liquidity, exit_code,
                   outcome, success, subnets>>

\* ResolveNoTarget with the missing target treated as a graceful exit
ResolveNoTarget_Skips ==
    /\ pc = "resolve"
    /\ config.target_netuid = NoNetuid
    /\ config.whitelist = {}
    /\ Return(Ret(0, "GracefulSkip", "No target_netuid or whitelist"))
    /\ UNCHANGED <<config, net_idx, attempt, attempts, sleeps, opened,
                   subtensor, wallet, balance, subnet, liquidity, calls,
                   exit_code, outcome, success, subnets>>

ResolveNoTarget ==
    /\ pc = "resolve"
    /\ config.target_netuid = NoNetuid
    /\ config.whitelist = {}
    /\ Return(Ret(1, "Failure", "No target_netuid or whitelist"))
    /\ UNCHANGED <<config, net_idx, attempt, attempts, sleeps, opened,
                   subtensor, wallet, balance, subnet, liquidity, calls,
                   exit_code, outcome, success, subnets>>

\* "Log subnet info": price = float(subnet.price), except Exception: return 1
LogPrice ==
    /\ pc = "price"
    /\ IF ~Parsed(subnet.price)
       THEN Return(Ret(1, "Failure", "Invalid subnet price data"))
       ELSE Goto("liquidity")
    /\ UNCHANGED <<config, net_idx, attempt, attempts, sleeps, opened,
                   subtensor, wallet, balance, subnet, liquidity, calls,
                   exit_code, outcome, success, subnets>>

\* LiquidityStep with a failed check reported as an error (return 1)
LiquidityStep_SkipIsFailure ==
    /\ pc = "liquidity"
    /\ LET r == check_liquidity(subnet, config.stake_amount,
                                config.min_liquidity_ratio)
       IN  IF r.raised
           THEN Propagate(r.msg) /\ UNCHANGED liquidity
           ELSE /\ liquidity' = r
                /\ IF ~r.ok
                   THEN Return(Ret(1, "Failure", "Insufficient liquidity"))
                   ELSE Goto("stake")
    /\ UNCHANGED <<config, net_idx, attempt, attempts, sleeps, opened,
                   subtensor, wallet, balance, subnet, calls, exit_code,
                   outcome, success, subnets>>

LiquidityStep ==
    /\ pc = "liquidity"
    /\ LET r == check_liquidity(subnet, config.stake_amount,
                                config.min_liquidity_ratio)
       IN  IF r.raised
           THEN Propagate(r.msg) /\ UNCHANGED liquidity
           ELSE /\ liquidity' = r
                /\ IF ~r.ok
                   THEN Return(Ret(0, "GracefulSkip", "Insufficient liquidity"))
                   ELSE Goto("stake")
    /\ UNCHANGED <<config, net_idx, attempt, attempts, sleeps, opened,
                   subtensor, wallet, balance, subnet, calls, exit_code,
                   outcome, success, subnets>>

DryRun ==
    /\ pc = "stake"
    /\ config.dry_run
    /\ Return(Ret(0, "Success", "DRY RUN"))
    /\ UNCHANGED <<config, net_idx, attempt, attempts, sleeps, opened,
                   subtensor, wallet, balance, subnet, liquidity, calls,
                   exit_code, outcome, success, subnets>>

\* execute_stake releasing the connection before the stake call is made
execute_stake_ClosesFirst ==
    /\ pc = "stake"
    /\ ~config.dry_run
    /\ calls' = calls \o <<"close", "add_stake">>
    /\ subtensor' = "closed"
    /\ \E answer \in {"True", "False", "raised"} :
        /\ success' = answer
        /\ Return(IF answer = "True" THEN Ret(0, "Success", "Staked")
                  ELSE Ret(1, "Failure", "Stake failed"))
    /\ UNCHANGED <<config, net_idx, attempt, attempts, sleeps, opened,
                   wallet, balance, subnet, liquidity, exit_code, outcome,
                   subnets>>

\* execute_stake called whether or not dry_run is set
execute_stake_IgnoresDryRun ==
    /\ pc = "stake"
    /\ calls' = Append(calls, "add_stake")
    /\ \E answer \in {"True", "False", "raised"} :
        /\ success' = answer
        /\ Return(IF answer = "True" THEN Ret(0, "Success", "Staked")
                  ELSE IF answer = "False"
                  THEN Ret(1, "Failure", "Stake transaction returned failure")
                  ELSE Ret(1, "Failure", "Stake failed"))
    /\ UNCHANGED <<config, net_idx, attempt, attempts, sleeps, opened,
                   subtensor, wallet, balance, subnet, liquidity, exit_code,
                   outcome, subnets>>

\* execute_stake: one add_stake call; it returns True or False, or raises
execute_stake ==
    /\ pc = "stake"
    /\ ~config.dry_run
    /\ calls' = Append(calls, "add_stake")
    /\ \E answer \in {"True", "False", "raised"} :
        /\ success' = answer
        /\ Return(IF answer = "True" THEN Ret(0, "Success", "Staked")
                  ELSE IF answer = "False"
                  THEN Ret(1, "Failure", "Stake transaction returned failure")
                  ELSE Ret(1, "Failure", "Stake failed"))
    /\ UNCHANGED <<config, net_idx, attempt, attempts, sleeps, opened,
                   subtensor, wallet, balance, subnet, liquidity, exit_code,
                   outcome, subnets>>

\* Finally with the release forgotten
Finally_NoClose ==
    /\ pc = "finally"
    /\ IF raised # "none"
       THEN outcome' = "Raised" /\ UNCHANGED exit_code
       ELSE outcome' = pending.outcome /\ exit_code' = pending.code
    /\ pc' = "done"
    /\ UNCHANGED <<config, net_idx, attempt, attempts, sleeps, opened,
                   subtensor, wallet, balance, subnet, liquidity, calls,
                   pending, raised, success, subnets>>

\* finally: await subtensor.close(), which returns; then the pending return
\* takes effect, unless an exception is propagating out of run()
Finally ==
    /\ pc = "finally"
    /\ calls' = Append(calls, "close")
    /\ subtensor' = "closed"
    /\ IF raised # "none"
       THEN outcome' = "Raised" /\ UNCHANGED exit_code
       ELSE outcome' = pending.outcome /\ exit_code' = pending.code
    /\ pc' = "done"
    /\ UNCHANGED <<config, net_idx, attempt, attempts, sleeps, opened,
                   wallet, balance, subnet, liquidity, pending, raised,
                   success, subnets>>

Next ==
    \/ TrySucceeds
    \/ TryFailsRetry
    \/ TryFailsFallback
    \/ ConnectFails
    \/ UnlockOk
    \/ UnlockRaises
    \/ BalanceRead
    \/ BalanceRaises
    \/ ResolveById
    \/ ResolveFromWhitelist
    \/ ResolveFetchRaises
    \/ ResolveNoTarget
    \/ LogPrice
    \/ LiquidityStep
    \/ DryRun
    \/ execute_stake
    \/ Finally

Spec == Init /\ [][Next]_vars

(***************************************************************************)
(* select_best_from_whitelist studied on its own: the inputs are drawn in  *)
(* InitSelect and one call is made.  The list holds the subnets 1..k in    *)
(* the order of the chain; the function reads a netuid only to test it     *)
(* against the whitelist, which ranges over every set of netuids.          *)
(***************************************************************************)
\* the attributes of a subnet record, its netuid left out
SubnetAttrs == [price : PriceVals, tao_in : TaoInVals,
                tao_in_emission : EmissionVals]

MkSubnet(netuid, a) ==
    [netuid |-> netuid, price |-> a.price, tao_in |-> a.tao_in,
     tao_in_emission |-> a.tao_in_emission]

SelectConfigs == {c \in Configs : /\ c.network = "finney"
                                  /\ c.target_netuid = NoNetuid
                                  /\ ~c.dry_run}

InitSelect ==
    /\ config \in SelectConfigs
    /\ \E k \in 0..MaxSubnets :
        \E a \in [1..k -> SubnetAttrs] :
            subnets = [i \in 1..k |-> MkSubnet(i, a[i])]
    /\ pc = "select"
    /\ net_idx = 1
    /\ attempt = 1
    /\ attempts = <<>>
    /\ sleeps = <<>>
    /\ opened = 0
    /\ subtensor = "none"
    /\ wallet = "locked"
    /\ balance = -1
    /\ subnet = None
    /\ liquidity = NoCheck
    /\ calls = <<>>
    /\ pending = NoReturn
    /\ exit_code = -1
    /\ outcome = "running"
    /\ raised = "none"
    /\ success = "unset"

\* the call returns (best_subnet, None) or (None, "No eligible subnets ...")
SelectReturns ==
    /\ pc = "select"
    /\ LET r == select_best_from_whitelist(subnets, config.whitelist,
                    config.stake_amount, config.min_liquidity_ratio)
       IN  /\ ~r.raised
           /\ subnet' = r.subnet
    /\ pc' = "selected"
    /\ UNCHANGED <<config, net_idx, attempt, attempts, sleeps, opened,
                   subtensor, wallet, balance, liquidity, calls, pending,
                   exit_code, outcome, raised, success, subnets>>

\* the call raises: a float(s.tao_in) raised what the function does not catch
SelectRaises ==
    /\ pc = "select"
    /\ LET r == select_best_from_whitelist(subnets, config.whitelist,
                    config.stake_amount, config.min_liquidity_ratio)
       IN  /\ r.raised
           /\ raised' = r.error
    /\ pc' = "select raised"
    /\ UNCHANGED <<config, net_idx, attempt, attempts, sleeps, opened,
                   subtensor, wallet, balance, subnet, liquidity, calls,
                   pending, exit_code, outcome, success, subnets>>

NextSelect ==
    \/ SelectReturns
    \/ SelectRaises

SpecSelect == InitSelect /\ [][NextSelect]_vars

(***************************************************************************)
(* Properties.                                                             *)
(***************************************************************************)
RECURSIVE CountIn(_, _)
\* number of occurrences of op in the sequence s
CountIn(s, op) ==
    IF s = <<>> THEN 0
    ELSE (IF Head(s) = op THEN 1 ELSE 0) + CountIn(Tail(s), op)

CountCalls(op) == CountIn(calls, op)

\* what the configuration asks for
TargetSet == config.target_netuid # NoNetuid

WhitelistSet == config.whitelist # {}

\* C1: in every run in which connect succeeded, whatever the way the run ends,
\* subtensor.close is invoked exactly once, and before run() returns its exit
\* code; it is never invoked twice.
C1_ReleasedExactlyOnce ==
    /\ CountCalls("close") <= 1
    /\ (subtensor # "none" /\ (pc = "done" \/ exit_code # -1))
           => (CountCalls("close") = 1 /\ subtensor = "closed")

C1_Witness ==
    /\ pc = "done"
    /\ exit_code = 0
    /\ success = "True"
    /\ CountCalls("close") = 1

\* the state in which the claim of C2 lets add_stake be called (amounts in
\* hundredths of a TAO: 0.01 is 1)
StakeAllowed ==
    /\ subtensor = "open"
    /\ wallet = "unlocked"
    /\ balance >= config.stake_amount + 1
    /\ subnet # None
    /\ liquidity.ok
    /\ subnet.tao_in.exc = "none"
    /\ subnet.tao_in.v > 0
    /\ subnet.tao_in.v >= config.stake_amount * config.min_liquidity_ratio
    /\ ~config.dry_run

\* C2: add_stake is called at most once in a run, and each call is made from a
\* state in which connect succeeded, the wallet is unlocked, the balance read
\* is at least stake_amount + 0.01, a target subnet is resolved,
\* check_liquidity returned ok for it (its liquidity is > 0 and at least
\* stake_amount * min_liquidity_ratio) and dry_run is false.
C2_StakeOnlyWhenAllowed ==
    [][CountIn(calls', "add_stake") > CountCalls("add_stake")
         => (StakeAllowed /\ CountCalls("add_stake") = 0)]_vars

C2_Witness ==
    /\ CountCalls("add_stake") = 1
    /\ pc = "done"

\* the conditions C3 names, read off the run's history
StakeReportedTrue == success = "True"

DryRunReached == config.dry_run /\ liquidity.ok

NoEligibleCandidate ==
    /\ ~TargetSet
    /\ WhitelistSet
    /\ CountCalls("all_subnets") = 1
    /\ raised = "none"
    /\ subnet = None

LiquidityNotOk == liquidity # NoCheck /\ ~liquidity.ok

FailureCondition ==
    \/ subtensor = "none"
    \/ CountCalls("unlock_wallet") = 1 /\ wallet = "locked"
    \/ CountCalls("get_balance") = 1 /\ balance < config.stake_amount + 1
    \/ TargetSet /\ CountCalls("all_subnets") = 1 /\ raised = "none"
                 /\ subnet = None
    \/ ~TargetSet /\ ~WhitelistSet
    \/ subnet # None /\ subnet.price.exc # "none"
    \/ success = "False"
    \/ success = "raised"

\* C3: when run() is over, it has returned 0 exactly when the stake call
\* reported true, the dry-run step was reached, whitelist selection found no
\* eligible subnet or check_liquidity was not ok; and it has returned 1
\* whenever a failure condition occurred (connection error, unlock error,
\* balance error or insufficient balance, target id not found, neither target
\* nor whitelist configured, unparsable price, stake call false or raising).
C3_ExitCodes ==
    pc = "done" =>
        /\ exit_code = 0 <=> (\/ StakeReportedTrue
                              \/ DryRunReached
                              \/ NoEligibleCandidate
                              \/ LiquidityNotOk)
        /\ FailureCondition => exit_code = 1

C3_Witness ==
    /\ pc = "done"
    /\ LiquidityNotOk
    /\ exit_code = 0

\* the price of the resolved subnet is unparsable, zero or negative
BadPrice == subnet # None /\ (subnet.price.exc # "none" \/ subnet.price.v <= 0)

\* C4: if the price of the resolved target subnet is unparsable or not
\* strictly positive, no stake call is made and the run, when it returns,
\* returns 1; in single subnet mode as well as in whitelist mode.
C4_BadPriceFails ==
    BadPrice => /\ CountCalls("add_stake") = 0
                /\ exit_code # -1 => exit_code = 1

\* C6: with dry_run set no run calls add_stake, and every run that passed
\* connect, unlock, the balance check, target resolution, the price step and
\* the liquidity check returns 0 without a stake call.
C6_DryRunNeverStakes ==
    config.dry_run =>
        /\ CountCalls("add_stake") = 0
        /\ (pc = "done" /\ subtensor # "none" /\ wallet = "unlocked"
              /\ balance >= config.stake_amount + 1 /\ subnet # None
              /\ subnet.price.exc = "none" /\ liquidity.ok)
               => (exit_code = 0 /\ success = "unset")

C6_Witness ==
    /\ config.dry_run
    /\ pc = "done"
    /\ liquidity.ok
    /\ exit_code = 0

Survives(s) ==
    /\ s.netuid \in config.whitelist
    /\ s.price.exc = "none"
    /\ s.price.v > 0
    /\ s.tao_in.exc = "none"
    /\ s.tao_in.v >= config.stake_amount * config.min_liquidity_ratio

Survivors == {i \in 1..Len(subnets) : Survives(subnets[i])}

\* the score of a surviving subnet as the claims state it: emission / price,
\* or 0 when the emission is unavailable; a fraction [n, d]
ClaimScore(s) ==
    IF s.tao_in_emission.exc = "none"
    THEN [n |-> s.tao_in_emission.v, d |-> s.price.v]
    ELSE [n |-> 0, d |-> 1]

ScoreEq(a, b) == a.n * b.d = b.n * a.d

ScoreLess(a, b) == a.n * b.d < b.n * a.d

Range(s) == {s[i] : i \in 1..Len(s)}

RECURSIVE PermsOf(_)
\* the sequences that list every element of the set S once
PermsOf(S) ==
    IF S = {} THEN {<<>>}
    ELSE UNION {{<<x>> \o p : p \in PermsOf(S \ {x})} : x \in S}

\* the answer of the selector on the list p under the configuration
SelectedFrom(p) ==
    select_best_from_whitelist(p, config.whitelist, config.stake_amount,
                               config.min_liquidity_ratio)

\* C5: whitelist selection returns "no eligible subnet" if and only if no
\* subnet survives the filters; with at least one survivor a subnet is
\* returned, whatever the scores (also when every survivor's score is 0).
C5_NoneIffNoSurvivor ==
    pc = "selected" => (subnet = None <=> Survivors = {})

\* C8, as claimed: on every permutation of the same list the selector returns
\* the same subnet (or none on all of them).
C8_SameSubnetAnyOrder ==
    pc = "selected" =>
        \A p \in PermsOf(Range(subnets)) : SelectedFrom(p).subnet = subnet

\* C8, amended: on every permutation of the same list the selector returns a
\* subnet of the same score (or none on all of them), and the same subnet
\* whenever no other surviving subnet has the score of the one returned.
C8_SameScoreAnyOrder ==
    pc = "selected" =>
        \A p \in PermsOf(Range(subnets)) :
            LET r == SelectedFrom(p)
            IN  /\ ~r.raised
                /\ r.subnet = None <=> subnet = None
                /\ (r.subnet # None /\ subnet # None) =>
                       ScoreEq(ClaimScore(r.subnet), ClaimScore(subnet))
                /\ (subnet # None /\
                    \A i \in Survivors :
                        subnets[i] # subnet =>
                            ~ScoreEq(ClaimScore(subnets[i]), ClaimScore(subnet)))
                       => r.subnet = subnet

\* two survivors of different scores, the better one last in the list
C8_Witness ==
    /\ pc = "selected"
    /\ subnet # None
    /\ Len(subnets) >= 2
    /\ subnet = subnets[Len(subnets)]
    /\ \E i \in Survivors :
           ScoreLess(ClaimScore(subnets[i]), ClaimScore(subnet))

\* C9: if two surviving subnets have equal score and no survivor has a greater
\* score, the selector returns the one of them that comes first in the list
\* (the first of all the survivors with that score).
C9_TieFirstWins ==
    pc = "selected" =>
        \A i, j \in Survivors :
            (/\ i < j
             /\ ScoreEq(ClaimScore(subnets[i]), ClaimScore(subnets[j]))
             /\ \A k \in Survivors :
                    ~ScoreLess(ClaimScore(subnets[i]), ClaimScore(subnets[k]))
             /\ \A k \in Survivors :
                    k < i => ~ScoreEq(ClaimScore(subnets[k]), ClaimScore(subnets[i])))
                => subnet = subnets[i]

RECURSIVE Blocks(_)
\* the sequence s with every run of equal consecutive elements made one
Blocks(s) ==
    IF Len(s) <= 1 THEN s
    ELSE IF s[1] = s[2] THEN Blocks(Tail(s))
    ELSE <<s[1]>> \o Blocks(Tail(s))

\* the order C10 states for a preferred network
ClaimedOrder(preferred) ==
    IF preferred = "finney" THEN <<"finney", "subvortex", "archive">>
    ELSE IF preferred = "subvortex" THEN <<"subvortex", "finney", "archive">>
    ELSE IF preferred = "archive" THEN <<"archive", "finney", "subvortex">>
    ELSE <<preferred, "finney", "subvortex", "archive">>

IsPrefix(s, u) == Len(s) <= Len(u) /\ s = SubSeq(u, 1, Len(s))

\* C10: the networks tried, block by block, are a prefix of the preferred
\* network followed by finney, subvortex, archive without the preferred one
\* (archive gives archive, finney, subvortex); no network comes back as a
\* second block; and no try is made once a try has succeeded.
C10_FallbackOrder ==
    /\ [](IsPrefix(Blocks(attempts), ClaimedOrder(config.network)))
    /\ [][subtensor # "none" => attempts' = attempts]_vars

\* preferred archive, every network tried, the last one connects
C10_Witness ==
    /\ config.network = "archive"
    /\ Blocks(attempts) = <<"archive", "finney", "subvortex">>
    /\ subtensor = "open"

\* run() under the assumption that every external call eventually returns or
\* raises: the step the program is at is eventually taken
SpecFair == Spec /\ WF_vars(Next)

(***************************************************************************)
(* check_liquidity alone, on one subnet record and one configuration.      *)
(***************************************************************************)
\* what reading and converting subnet.tao_in can give: no attribute, a value
\* float() rejects with TypeError or ValueError, or a number
LiquidityTaoIn == {Raises("AttributeError"), Raises("TypeError"),
                   Raises("ValueError"), Num(-500), Num(0), Num(500),
                   Num(1000), Num(2000)}

LiquiditySubnets == [netuid : Netuids, price : PriceVals,
                     tao_in : LiquidityTaoIn, tao_in_emission : {Num(1)}]

LiquidityConfigs == [network : {"finney"}, target_netuid : Netuids,
                     whitelist : {{}}, stake_amount : {100, 200},
                     min_liquidity_ratio : {0, 5, 10}, dry_run : {FALSE}]

InitLiquidity ==
    /\ subnet \in LiquiditySubnets
    /\ config \in {c \in LiquidityConfigs : c.target_netuid = subnet.netuid}
    /\ subnets = <<>>
    /\ pc = "check"
    /\ net_idx = 1
    /\ attempt = 1
    /\ attempts = <<>>
    /\ sleeps = <<>>
    /\ opened = 0
    /\ subtensor = "none"
    /\ wallet = "locked"
    /\ balance = -1
    /\ liquidity = NoCheck
    /\ calls = <<>>
    /\ pending = NoReturn
    /\ exit_code = -1
    /\ outcome = "running"
    /\ raised = "none"
    /\ success = "unset"

\* the call returns (ok, tao_in_pool, msg)
CheckReturns ==
    /\ pc = "check"
    /\ LET r == check_liquidity(subnet, config.stake_amount,
                                config.min_liquidity_ratio)
       IN  /\ ~r.raised
           /\ liquidity' = r
    /\ pc' = "checked"
    /\ UNCHANGED <<config, net_idx, attempt, attempts, sleeps, opened,
                   subtensor, wallet, balance, subnet, calls, pending,
                   exit_code, outcome, raised, success, subnets>>

\* the call raises: float(subnet.tao_in) raised what the function does not catch
CheckRaises ==
    /\ pc = "check"
    /\ LET r == check_liquidity(subnet, config.stake_amount,
                                config.min_liquidity_ratio)
       IN  /\ r.raised
           /\ raised' = r.msg
    /\ pc' = "check raised"
    /\ UNCHANGED <<config, net_idx, attempt, attempts, sleeps, opened,
                   subtensor, wallet, balance, subnet, liquidity, calls,
                   pending, exit_code, outcome, success, subnets>>

NextLiquidity ==
    \/ CheckReturns
    \/ CheckRaises

SpecLiquidity == InitLiquidity /\ [][NextLiquidity]_vars

\* connect failed on every network: run() is over without a handle
ConnectFailed == pc = "done" /\ subtensor = "none"

\* C11: a network is tried at most 3 times and is left for the next one only
\* after 3 failed tries; connect fails only when every network of the list
\* has had its 3 failed tries: 9 tries when the preferred network is one of
\* finney, subvortex, archive, 12 tries otherwise.
C11_RetryBound ==
    /\ \A n \in Networks : CountIn(attempts, n) <= 3
    /\ \A i \in 1..(Len(Blocks(attempts)) - 1) :
           CountIn(attempts, Blocks(attempts)[i]) = 3
    /\ ConnectFailed =>
           /\ Blocks(attempts) = ClaimedOrder(config.network)
           /\ \A i \in 1..Len(Blocks(attempts)) :
                  CountIn(attempts, Blocks(attempts)[i]) = 3
           /\ Len(attempts) =
                  IF config.network \in {"finney", "subvortex", "archive"}
                  THEN 9 ELSE 12

\* a preferred network outside the fallback list: 12 failed tries
C11_Witness ==
    /\ ConnectFailed
    /\ config.network = "test"
    /\ Len(attempts) = 12

\* the balance read is below stake_amount + 0.01
BalanceTooLow == balance # -1 /\ balance < config.stake_amount + 1

\* C12: once the balance read is below stake_amount + 0.01, neither then nor
\* later in the run is the subnet list fetched, a subnet resolved or a stake
\* call made, and the run ends with exit code 1.
C12_LowBalanceStopsRun ==
    BalanceTooLow =>
        /\ CountCalls("all_subnets") = 0
        /\ CountCalls("add_stake") = 0
        /\ subnet = None
        /\ pc \in {"finally", "done"}
        /\ pc = "done" => exit_code = 1

C12_Witness ==
    /\ BalanceTooLow
    /\ pc = "done"
    /\ exit_code = 1

\* C13: every run that is over has returned one of the exit codes 0 and 1,
\* whatever the collaborators answered.
C13_AlwaysAnOutcome ==
    pc = "done" =>
        /\ exit_code \in {0, 1}
        /\ outcome \in {"Success", "GracefulSkip", "Failure"}

\* the ok flag the four rules give, in their order, for a liquidity reading
RuleOk(tao_in, stake_amount, min_ratio) ==
    IF ~Parsed(tao_in) THEN FALSE
    ELSE IF tao_in.v <= 0 THEN FALSE
    ELSE IF tao_in.v < stake_amount * min_ratio THEN FALSE
    ELSE TRUE

\* C14: every call of check_liquidity returns a triple and never raises; its
\* ok flag is the one the rules give in their order (unreadable or unparsable,
\* then <= 0, then below stake_amount * min_ratio, else ok), and the measured
\* liquidity is the liquidity read whenever it could be read.
C14_RulesInOrderNeverRaises ==
    pc \in {"checked", "check raised"} =>
        /\ pc = "checked"
        /\ raised = "none"
        /\ liquidity.ok = RuleOk(subnet.tao_in, config.stake_amount,
                                 config.min_liquidity_ratio)
        /\ Parsed(subnet.tao_in) => liquidity.tao_in_pool = subnet.tao_in.v

\* C15: a subnet returned by whitelist selection is one of the fetched
\* subnets, is in the whitelist, has a price that parses and is > 0 and a
\* liquidity that is available and >= stake_amount * min_liquidity_ratio, and
\* no other subnet passing these filters has a strictly greater score.
C15_ReturnedIsBestSurvivor ==
    (pc = "selected" /\ subnet # None) =>
        /\ \E i \in 1..Len(subnets) : subnets[i] = subnet
        /\ Survives(subnet)
        /\ \A k \in Survivors :
               ~ScoreLess(ClaimScore(subnet), ClaimScore(subnets[k]))

\* a subnet was returned while another survivor, of lower score, was in the list
C15_Witness ==
    /\ pc = "selected"
    /\ subnet # None
    /\ \E k \in Survivors : ScoreLess(ClaimScore(subnets[k]), ClaimScore(subnet))

\* the handles constructed by connect_with_retry and not closed since
OpenHandles == opened - CountCalls("close")

\* C16: when connect failed on every network the run ends with exit code 1,
\* no handle constructed during a failed try is left unclosed, and no unlock,
\* balance, subnet or stake call (and no close) was made.
C16_NothingToRelease ==
    ConnectFailed =>
        /\ exit_code = 1
        /\ outcome = "Failure"
        /\ calls = <<>>
        /\ wallet = "locked"
        /\ OpenHandles = 0

\* the delays slept before a second try and before a third try on a network
\* (two delays per exhausted network, in the order they were slept)
DelaysBeforeSecond == {sleeps[i] : i \in {j \in 1..Len(sleeps) : j % 2 = 1}}

DelaysBeforeThird == {sleeps[i] : i \in {j \in 1..Len(sleeps) : j % 2 = 0}}

\* tries are sequential: while connecting, every try made so far on the
\* current network but the one in progress was followed by one delay
SequentialTries ==
    pc = "connect" =>
        /\ Len(attempts) = 3 * (net_idx - 1) + (attempt - 1)
        /\ Len(sleeps) = 2 * (net_idx - 1) + (attempt - 1)

DelaysWithinLimits == \A i \in 1..Len(sleeps) : sleeps[i] >= 2 /\ sleeps[i] <= 10

WhitelistMode == ~TargetSet /\ WhitelistSet

\* C18: with stake_amount > 0 and min_liquidity_ratio > 0, a subnet returned
\* by whitelist selection passes check_liquidity later in the same run: in
\* whitelist mode the check never raises and never answers not ok, a run that
\* returns 0 without staking or reaching the dry-run step had no eligible
\* subnet, and a not-ok liquidity check occurs only in explicit-id mode.
C18_SelectedPassesLiquidityCheck ==
    /\ config.stake_amount > 0 /\ config.min_liquidity_ratio > 0
    /\ WhitelistMode =>
           /\ ~LiquidityNotOk
           /\ (subnet # None /\ pc \in {"stake", "finally", "done"})
                  => (liquidity.ok /\ raised = "none")
           /\ (pc = "done" /\ exit_code = 0 /\ ~StakeReportedTrue
                   /\ ~DryRunReached) => NoEligibleCandidate
    /\ LiquidityNotOk => TargetSet

\* a run in whitelist mode whose selected subnet passed the check
C18_Witness ==
    /\ WhitelistMode
    /\ subnet # None
    /\ liquidity.ok
    /\ pc = "done"

\* C19: the release is the last action on the connection: close is the last
\* entry of the call history (no balance read, subnet fetch or stake call
\* follows it, and once made the history no longer grows), and a stake call
\* has its answer before the connection is released.
C19_ReleaseIsLast ==
    /\ \A i \in 1..Len(calls) : calls[i] = "close" => i = Len(calls)
    /\ (CountCalls("close") >= 1 /\ CountCalls("add_stake") >= 1)
           => success # "unset"
    /\ CountCalls("close") >= 1 => (subtensor = "closed" /\ pc = "done")

\* a run that staked and then released the connection
C19_Witness ==
    /\ CountCalls("add_stake") = 1
    /\ success # "unset"
    /\ calls[Len(calls)] = "close"

\* the position of a step in run()
StepRank(p) ==
    CASE p = "connect" -> 0
      [] p = "unlock" -> 1
      [] p = "balance" -> 2
      [] p = "resolve" -> 3
      [] p = "price" -> 4
      [] p = "liquidity" -> 5
      [] p = "stake" -> 6
      [] p = "finally" -> 7
      [] OTHER -> 8

\* at most 3 tries on each of at most 4 networks, and at most one unlock, one
\* balance read, one subnet fetch, one stake call and one release
BoundedCalls ==
    /\ \A n \in Networks : CountIn(attempts, n) <= 3
    /\ Cardinality(Range(attempts)) <= 4
    /\ Len(attempts) <= 12
    /\ \A c \in {"unlock_wallet", "get_balance", "all_subnets", "add_stake",
                 "close"} : CountCalls(c) <= 1

\* after connect every step is taken at most once and none is revisited
NoStepRepeated ==
    [][/\ StepRank(pc') >= StepRank(pc)
       /\ pc # "connect" => StepRank(pc') > StepRank(pc)]_vars

\* C20: when every external call eventually returns or raises, every run
\* eventually reaches its end; connect makes at most 3 tries on each of at
\* most 4 networks, and after it there is at most one unlock, one balance
\* read, one subnet fetch, one stake call and one release, no step repeated.
C20_Terminates ==
    /\ <>(pc = "done")
    /\ []BoundedCalls
    /\ NoStepRepeated

\* a run that went through every step, after the longest connect
C20_Witness ==
    /\ pc = "done"
    /\ Len(attempts) = 12
    /\ CountCalls("add_stake") = 1
    /\ CountCalls("close") = 1

====
